---- MODULE Spec2Model ----
(***************************************************************************)
(* Wallet ledger: WalletService.deposit, WithdrawalService.schedule and    *)
(* WithdrawalService.execute running as concurrent database transactions   *)
(* (READ COMMITTED, row locks taken by select_for_update and held until    *)
(* the transaction.atomic block ends).                                     *)
(*                                                                         *)
(* Committed rows live in `balance` and `txs`.  What a running call has    *)
(* written but not yet committed lives in its locals `loc[p]`; a row lock  *)
(* is held by the process whose position `pc[p]` is inside the locked      *)
(* section of the call.                                                    *)
(***************************************************************************)
EXTENDS Integers, Sequences, FiniteSets, TLC

\* ---------------------------------------------------------------- bounds
NumProcs == 2
MaxWallets == 1
MaxTx == 3
MaxAmount == 1
NumKeys == 1
MaxTime == 1
MaxRejections == 4
MaxQueue == 2
MaxFaults == 4

\* ------------------------------------------------------ program constants
MAX_RETRIES == 3

DEPOSIT == "DEPOSIT"
WITHDRAWAL == "WITHDRAWAL"
PENDING == "PENDING"
PROCESSING == "PROCESSING"
COMPLETED == "COMPLETED"
FAILED == "FAILED"

\* ------------------------------------------------------------ value sets
Procs == 1..NumProcs
WalletIds == 1..(MaxWallets + 1)
TxIds == 1..MaxTx
Amounts == (-1)..MaxAmount
NoKey == 0
Keys == 0..NumKeys
Times == 0..MaxTime
Null == -1
\* executed_at: no code path reads the instant, the row keeps whether it is set
Unset == "null"
Stamp == "set"

VARIABLES
    balance,    \* committed Wallet rows: wallet id -> balance
    txs,        \* committed Transaction rows, indexed by id
    pc,         \* position of each process inside its current call
    loc,        \* locals of each process's current call
    ret,        \* what the call that finished in the last step returned or raised
    now,        \* the clock read by timezone.now()
    bankCalls,  \* requests the bank has received, per transaction id
    bankOk,     \* requests the bank has answered with status 200, per id
    queue,      \* process_single_withdrawal messages waiting for a worker
    faults,     \* unexpected errors and worker crashes so far
    beat        \* the periodic task that is between its two queries

vars == <<balance, txs, pc, loc, ret, now, bankCalls, bankOk, queue, faults,
          beat>>

\* ---------------------------------------------------------------- helpers
NoLoc == [wallet |-> 0, amount |-> 0, key |-> NoKey, tx |-> 0,
          sched |-> Null, status |-> "", delta |-> 0, bank |-> "none",
          req |-> <<>>, resp |-> "none", task |-> FALSE, retries |-> 0]

NoRet == [op |-> "none", out |-> "none", id |-> 0, status |-> "",
          conflict |-> FALSE, dispatched |-> 0]

\* no periodic task is running
NoBeat == [task |-> "none", count |-> 0, at |-> 0]

Returned(o, i, s) == [NoRet EXCEPT !.op = o, !.out = "ok", !.id = i, !.status = s]

Raised(o, e) == [NoRet EXCEPT !.op = o, !.out = e]

InvalidAmount_negative_only(a) == a < 0

InvalidAmount(a) == a <= 0

Wallets == DOMAIN balance

TxExists(t) == t \in 1..Len(txs)

FindByKey_newest(k) == IF k # NoKey THEN Len(txs) ELSE 0

FindByKey_missing(k) == 0

\* Transaction.objects.filter(idempotency_key=k).first(): id of the row, or 0
FindByKey(k) ==
    IF \E i \in 1..Len(txs) : txs[i].idempotency_key = k
    THEN CHOOSE i \in 1..Len(txs) : txs[i].idempotency_key = k
    ELSE 0

ReplayHit_same_request(k, w, a) ==
    /\ k # NoKey
    /\ FindByKey(k) # 0
    /\ txs[FindByKey(k)].amount = a
    /\ txs[FindByKey(k)].wallet = w

\* if idempotency_key: existing_tx = filter(...).first(); if existing_tx:
ReplayHit(k, w, a) == k # NoKey /\ FindByKey(k) # 0

\* the stored row returned for a repeated idempotency key; conflict records
\* the "Idempotency conflict" warning logged when the request differs from it
Replayed(o, k, w, a) ==
    [Returned(o, FindByKey(k), txs[FindByKey(k)].status) EXCEPT
        !.conflict = (txs[FindByKey(k)].amount # a \/ txs[FindByKey(k)].wallet # w)]

WalletLocked_never(w) == FALSE

\* rows whose lock is held by a running transaction
WalletLocked(w) ==
    \E q \in Procs : pc[q] \in {"exec_bank", "exec_commit"}
                     /\ loc[q].wallet = w

TxLocked(t) ==
    \E q \in Procs : pc[q] \in {"exec_wallet", "exec_bank", "exec_commit"}
                     /\ loc[q].tx = t

\* calls that have passed their checks and will insert a row
Inserting == {q \in Procs : pc[q] \in {"dep_lock", "sch_create"}}

RECURSIVE SumRetries(_)
SumRetries(n) == IF n = 0 THEN 0 ELSE txs[n].retry_count + SumRetries(n - 1)

\* bank rejections so far, committed or still inside an open transaction
Rejections ==
    SumRetries(Len(txs)) + Cardinality({q \in Procs : loc[q].bank = "rejected"})

UniqueViolation_unenforced(k) == FALSE

\* unique=True on idempotency_key: an insert of a key that a committed row
\* already carries is refused (NULL keys never collide)
UniqueViolation(k) == k # NoKey /\ FindByKey(k) # 0

AtomicAddBalance_overwrite(w, d) == [balance EXCEPT ![w] = d]

AtomicAddBalance(w, d) == [balance EXCEPT ![w] = @ + d]

Finish(p, r) ==
    /\ pc' = [pc EXCEPT ![p] = "idle"]
    /\ loc' = [loc EXCEPT ![p] = NoLoc]
    /\ ret' = r

\* ------------------------------------------------------------------- Init
Init ==
    /\ balance = <<>>
    /\ txs = <<>>
    /\ pc = [p \in Procs |-> "idle"]
    /\ loc = [p \in Procs |-> NoLoc]
    /\ ret = NoRet
    /\ now = 0
    /\ bankCalls = [t \in TxIds |-> 0]
    /\ bankOk = [t \in TxIds |-> 0]
    /\ queue = <<>>
    /\ faults = 0
    /\ beat = NoBeat

\* ---------------------------------------------------------------- wallets
\* POST /wallets/ : a new Wallet row with the default balance
CreateWallet ==
    /\ Len(balance) < MaxWallets
    /\ balance' = Append(balance, 0)
    /\ ret' = NoRet
    /\ UNCHANGED <<txs, pc, loc, now, bankCalls, bankOk, queue, faults, beat>>

Tick ==
    /\ now < MaxTime
    /\ now' = now + 1
    /\ ret' = NoRet
    /\ UNCHANGED <<balance, txs, pc, loc, bankCalls, bankOk, queue, faults, beat>>

\* ---------------------------------------------------------------- deposit
NewDeposit(w, a, k) ==
    [wallet |-> w, amount |-> a, transaction_type |-> DEPOSIT,
     status |-> COMPLETED, scheduled_for |-> Null, executed_at |-> Stamp,
     third_party_response |-> "none", retry_count |-> 0,
     idempotency_key |-> k]

\* amount check and the pre-lock idempotency lookup
deposit_begin(p, w, a, k) ==
    /\ pc[p] = "idle"
    /\ IF InvalidAmount(a)
       THEN /\ Finish(p, Raised("deposit", "ValueError"))
       ELSE IF ReplayHit(k, w, a)
       THEN /\ Finish(p, Replayed("deposit", k, w, a))
       ELSE /\ Len(txs) + Cardinality(Inserting) < MaxTx
            /\ pc' = [pc EXCEPT ![p] = "dep_lock"]
            /\ loc' = [loc EXCEPT ![p] = [NoLoc EXCEPT !.wallet = w, !.amount = a, !.key = k]]
            /\ ret' = NoRet
    /\ UNCHANGED <<balance, txs, now, bankCalls, bankOk, queue, faults, beat>>

\* Under the wallet's row lock (select_for_update waits for its holder):
\* balance = F("balance") + amount, Transaction.objects.create(...), commit.
\* An unknown wallet or a unique violation on idempotency_key raises and
\* rolls the block back.
deposit_commit(p) ==
    /\ pc[p] = "dep_lock"
    /\ IF loc[p].wallet \notin Wallets
       THEN /\ Finish(p, Raised("deposit", "WalletDoesNotExist"))
            /\ UNCHANGED <<balance, txs>>
       ELSE /\ ~WalletLocked(loc[p].wallet)
            /\ IF UniqueViolation(loc[p].key)
               THEN /\ Finish(p, Raised("deposit", "IntegrityError"))
                    /\ UNCHANGED <<balance, txs>>
               ELSE /\ balance' = AtomicAddBalance(loc[p].wallet, loc[p].amount)
                    /\ txs' = Append(txs, NewDeposit(loc[p].wallet, loc[p].amount,
                                                     loc[p].key))
                    /\ Finish(p, Returned("deposit", Len(txs) + 1, COMPLETED))
    /\ UNCHANGED <<now, bankCalls, bankOk, queue, faults, beat>>

\* --------------------------------------------------------------- schedule
NewWithdrawal_stamped(w, a, sf, k) ==
    [wallet |-> w, amount |-> a, transaction_type |-> WITHDRAWAL,
     status |-> PENDING, scheduled_for |-> sf, executed_at |-> Stamp,
     third_party_response |-> "none", retry_count |-> 0,
     idempotency_key |-> k]

NewWithdrawal(w, a, sf, k) ==
    [wallet |-> w, amount |-> a, transaction_type |-> WITHDRAWAL,
     status |-> PENDING, scheduled_for |-> sf, executed_at |-> Unset,
     third_party_response |-> "none", retry_count |-> 0,
     idempotency_key |-> k]

NotInFuture_strict(sf) == sf < now

\* if scheduled_for <= timezone.now(): raise ValueError
NotInFuture(sf) == sf <= now

\* argument checks and the idempotency lookup
schedule_begin(p, w, a, sf, k) ==
    /\ pc[p] = "idle"
    /\ IF InvalidAmount(a)
       THEN /\ Finish(p, Raised("schedule", "ValueError"))
       ELSE IF NotInFuture(sf)
       THEN /\ Finish(p, Raised("schedule", "ValueError"))
       ELSE IF ReplayHit(k, w, a)
       THEN /\ Finish(p, Replayed("schedule", k, w, a))
       ELSE /\ Len(txs) + Cardinality(Inserting) < MaxTx
            /\ pc' = [pc EXCEPT ![p] = "sch_create"]
            /\ loc' = [loc EXCEPT ![p] = [NoLoc EXCEPT !.wallet = w, !.amount = a,
                                                        !.key = k, !.sched = sf]]
            /\ ret' = NoRet
    /\ UNCHANGED <<balance, txs, now, bankCalls, bankOk, queue, faults, beat>>

\* Wallet.objects.get(uuid=wallet_uuid), Transaction.objects.create(...), commit
schedule_create(p) ==
    /\ pc[p] = "sch_create"
    /\ IF loc[p].wallet \notin Wallets
       THEN /\ Finish(p, Raised("schedule", "WalletDoesNotExist"))
            /\ txs' = txs
       ELSE IF UniqueViolation(loc[p].key)
       THEN /\ Finish(p, Raised("schedule", "IntegrityError"))
            /\ txs' = txs
       ELSE /\ txs' = Append(txs, NewWithdrawal(loc[p].wallet, loc[p].amount,
                                                loc[p].sched, loc[p].key))
            /\ Finish(p, Returned("schedule", Len(txs) + 1, PENDING))
    /\ UNCHANGED <<balance, now, bankCalls, bankOk, queue, faults, beat>>

\* ---------------------------------------------------------------- execute
\* a caller (worker or test) invokes WithdrawalService.execute(transaction_id)
execute_enter(p, t, task, retries) ==
    /\ pc[p] = "idle"
    /\ pc' = [pc EXCEPT ![p] = "exec_tx"]
    /\ loc' = [loc EXCEPT ![p] = [NoLoc EXCEPT !.tx = t, !.task = task,
                                               !.retries = retries]]
    /\ ret' = NoRet
    /\ UNCHANGED <<balance, txs, now, bankCalls, bankOk, faults, beat>>

\* execute called directly, outside the task queue
execute_call(p, t) == execute_enter(p, t, FALSE, 0) /\ UNCHANGED queue

\* --------------------------------------------- process_single_withdrawal
\* max_retries of the task decorator
TASK_MAX_RETRIES == 3

Message(t, retries, countdown) ==
    [tx |-> t, retries |-> retries, countdown |-> countdown]

TaskResult(t, s) ==
    [NoRet EXCEPT !.op = "process_single_withdrawal", !.out = "ok",
                  !.id = t, !.status = s]

TaskRaised(t, e) ==
    [NoRet EXCEPT !.op = "process_single_withdrawal", !.out = e, !.id = t]

\* what the caller of execute gets back: the task turns the row into
\* {"transaction_id", "status"}
ExecuteReturns(p, s) ==
    IF loc[p].task THEN TaskResult(loc[p].tx, s)
                   ELSE Returned("execute", loc[p].tx, s)

Countdown_linear(retries) == (retries + 1) * 10

\* countdown=2**self.request.retries * 10
Countdown(retries) == (2 ^ retries) * 10

\* except Exception: self.retry(exc=exc, countdown=...) sends the message
\* again with retries + 1, or re-raises exc once max_retries is reached
OnException(p) ==
    IF ~loc[p].task
    THEN /\ Finish(p, Raised("execute", "Exception"))
         /\ queue' = queue
    ELSE IF loc[p].retries < TASK_MAX_RETRIES
    THEN /\ Finish(p, TaskRaised(loc[p].tx, "Retry"))
         /\ queue' = Append(queue, Message(loc[p].tx, loc[p].retries + 1,
                                           Countdown(loc[p].retries)))
    ELSE /\ Finish(p, TaskRaised(loc[p].tx, "Exception"))
         /\ queue' = queue

OnDoesNotExist_retries(p) == OnException(p)

\* except Transaction.DoesNotExist: return {..., "status": "NOT_FOUND"}
OnDoesNotExist(p) ==
    /\ Finish(p, IF loc[p].task
                 THEN TaskResult(loc[p].tx, "NOT_FOUND")
                 ELSE Raised("execute", "TransactionDoesNotExist"))
    /\ queue' = queue

Rollback_keeps_processing(p) ==
    /\ balance' = balance
    /\ txs' = [txs EXCEPT ![loc[p].tx].status = loc[p].status]

\* @transaction.atomic: an exception leaving execute discards every write
\* made since the call began
Rollback(p) ==
    /\ balance' = balance
    /\ txs' = txs

\* ---------------------------------------------------------------- execute
EntryStatuses_any_settled == {PENDING, FAILED, COMPLETED}

\* the statuses select_for_update().get(id=..., status__in=[...]) matches
EntryStatuses == {PENDING, FAILED}

Eligible_ignores_status(t) == TxExists(t)

Eligible(t) == TxExists(t) /\ txs[t].status \in EntryStatuses

\* lock the transaction row (waiting for a holder to finish, then matching
\* against the committed row) and mark it PROCESSING
execute_lock_tx(p) ==
    /\ pc[p] = "exec_tx"
    /\ IF ~Eligible(loc[p].tx)
       THEN /\ OnDoesNotExist(p)
       ELSE /\ ~TxLocked(loc[p].tx)
            /\ pc' = [pc EXCEPT ![p] = "exec_wallet"]
            /\ loc' = [loc EXCEPT ![p].wallet = txs[loc[p].tx].wallet,
                                  ![p].amount = txs[loc[p].tx].amount,
                                  ![p].status = PROCESSING]
            /\ ret' = NoRet
            /\ queue' = queue
    /\ UNCHANGED <<balance, txs, now, bankCalls, bankOk, faults, beat>>

InsufficientBalance_negative_only(bal, amount) == bal < 0

InsufficientBalance(bal, amount) == bal < amount

FailInsufficient_counts_retry(row) ==
    [row EXCEPT !.status = FAILED, !.executed_at = Stamp,
                !.retry_count = @ + 1,
                !.third_party_response = "insufficient_balance"]

\* the row as execute saves it when it fails for insufficient balance
FailInsufficient(row) ==
    [row EXCEPT !.status = FAILED, !.executed_at = Stamp,
                !.third_party_response = "insufficient_balance"]

\* lock the wallet row, validate the balance, then either fail and commit
\* or deduct the amount inside the open transaction
execute_lock_wallet(p) ==
    /\ pc[p] = "exec_wallet"
    /\ ~WalletLocked(loc[p].wallet)
    /\ IF InsufficientBalance(balance[loc[p].wallet], loc[p].amount)
       THEN /\ txs' = [txs EXCEPT ![loc[p].tx] = FailInsufficient(@)]
            /\ Finish(p, ExecuteReturns(p, FAILED))
       ELSE /\ pc' = [pc EXCEPT ![p] = "exec_bank"]
            /\ loc' = [loc EXCEPT ![p].delta = 0 - loc[p].amount]
            /\ ret' = NoRet
            /\ txs' = txs
    /\ UNCHANGED <<balance, now, bankCalls, bankOk, queue, faults, beat>>

\* ------------------------------------------------------------------- bank
\* what the bank's side of one request can be: a JSON object with status 200,
\* any other JSON object, no connection, no answer in time, a body that is
\* not JSON, a JSON body that is not an object
BankReplies == {"status_200", "status_other"}

BankOutcomes ==
    BankReplies \cup {"connection_error", "timeout", "not_json", "not_object"}

BankValue(success, response) ==
    [raised |-> FALSE, success |-> success, response |-> response]

BankRaises == [raised |-> TRUE, success |-> FALSE, response |-> "none"]

\* request_third_party_deposit: the results it can give for an outcome.
\* response.json() on a body that is not JSON raises a RequestException
\* subclass (caught) or a plain ValueError (not caught), depending on the
\* installed requests; response_data.get on a body that is not an object
\* raises AttributeError, which no except clause catches.
request_third_party_deposit(o) ==
    CASE o = "status_200"       -> {BankValue(TRUE, "bank_ok")}
      [] o = "status_other"     -> {BankValue(FALSE, "bank_rejected")}
      [] o = "connection_error" -> {BankValue(FALSE, "connection_error")}
      [] o = "timeout"          -> {BankValue(FALSE, "timeout")}
      [] o = "not_json"         -> {BankValue(FALSE, "request_error"), BankRaises}
      [] o = "not_object"       -> {BankRaises}

\* the bank receives the request; its client returns a result to execute or
\* raises, which rolls execute back
execute_bank(p, o) ==
    /\ pc[p] = "exec_bank"
    /\ bankCalls' = [bankCalls EXCEPT ![loc[p].tx] = @ + 1]
    /\ bankOk' = IF o = "status_200"
                 THEN [bankOk EXCEPT ![loc[p].tx] = @ + 1]
                 ELSE bankOk
    /\ \E r \in request_third_party_deposit(o) :
         IF r.raised
         THEN /\ faults < MaxFaults
              /\ faults' = faults + 1
              /\ Rollback(p)
              /\ OnException(p)
         ELSE /\ r.success \/ Rejections < MaxRejections
              /\ pc' = [pc EXCEPT ![p] = "exec_commit"]
              /\ loc' = [loc EXCEPT ![p].bank = IF r.success THEN "ok" ELSE "rejected",
                                    ![p].resp = r.response,
                                    ![p].req = <<loc[p].wallet, loc[p].amount>>]
              /\ ret' = NoRet
              /\ UNCHANGED <<balance, txs, queue, faults>>
    /\ UNCHANGED <<now, beat>>

Complete_unstamped(row, response) ==
    [row EXCEPT !.status = COMPLETED, !.third_party_response = response]

Complete(row, response) ==
    [row EXCEPT !.status = COMPLETED, !.executed_at = Stamp,
                !.third_party_response = response]

FailThirdParty(row, response) ==
    [row EXCEPT !.status = FAILED, !.executed_at = Stamp,
                !.retry_count = @ + 1,
                !.third_party_response = response]

ReturnAmount_skipped(d, amount) == d

\* the amount goes back to the wallet: balance = F("balance") + tx.amount on
\* top of the deduction made inside the same open transaction
ReturnAmount(d, amount) == d + amount

\* save the outcome (returning the amount to the wallet when the bank did
\* not accept) and commit
execute_commit(p) ==
    /\ pc[p] = "exec_commit"
    /\ IF loc[p].bank = "ok"
       THEN /\ balance' = AtomicAddBalance(loc[p].wallet, loc[p].delta)
            /\ txs' = [txs EXCEPT ![loc[p].tx] = Complete(@, loc[p].resp)]
            /\ Finish(p, ExecuteReturns(p, COMPLETED))
       ELSE /\ balance' = AtomicAddBalance(loc[p].wallet,
                                            ReturnAmount(loc[p].delta, loc[p].amount))
            /\ txs' = [txs EXCEPT ![loc[p].tx] = FailThirdParty(@, loc[p].resp)]
            /\ Finish(p, ExecuteReturns(p, FAILED))
    /\ UNCHANGED <<now, bankCalls, bankOk, queue, faults, beat>>

\* an unexpected error (a database error, say) leaves execute after it has
\* locked the row: the atomic block rolls back and the caller gets the error
execute_abort(p) ==
    /\ pc[p] \in {"exec_wallet", "exec_bank", "exec_commit"}
    /\ faults < MaxFaults
    /\ faults' = faults + 1
    /\ Rollback(p)
    /\ OnException(p)
    /\ UNCHANGED <<now, bankCalls, bankOk, beat>>

\* the worker dies while running the task: the open transaction is rolled
\* back by the database; with acks_late the unacknowledged message is
\* delivered again or is lost, depending on how the worker was lost
worker_crash(p, redelivered) ==
    /\ pc[p] \in {"exec_tx", "exec_wallet", "exec_bank", "exec_commit"}
    /\ loc[p].task
    /\ faults < MaxFaults
    /\ faults' = faults + 1
    /\ Rollback(p)
    /\ Finish(p, NoRet)
    /\ queue' = IF redelivered
                THEN Append(queue, Message(loc[p].tx, loc[p].retries, 0))
                ELSE queue
    /\ UNCHANGED <<now, bankCalls, bankOk, beat>>

\* ------------------------------------------------------------------ tasks
\* the ids of all committed rows, in id order
AllIds == [i \in 1..Len(txs) |-> i]

get_due_pending_withdrawals_any_time(at) ==
    SelectSeq(AllIds, LAMBDA i : /\ txs[i].transaction_type = WITHDRAWAL
                                 /\ txs[i].status = PENDING)

get_due_pending_withdrawals_strictly_past(at) ==
    SelectSeq(AllIds, LAMBDA i : /\ txs[i].transaction_type = WITHDRAWAL
                                 /\ txs[i].status = PENDING
                                 /\ txs[i].scheduled_for < at)

\* the rows the queryset built at time `at` gives when it is run now
get_due_pending_withdrawals(at) ==
    SelectSeq(AllIds, LAMBDA i : /\ txs[i].transaction_type = WITHDRAWAL
                                 /\ txs[i].status = PENDING
                                 /\ txs[i].scheduled_for <= at)

get_failed_retryable_withdrawals_any_count(max_retries) ==
    SelectSeq(AllIds, LAMBDA i : /\ txs[i].transaction_type = WITHDRAWAL
                                 /\ txs[i].status = FAILED)

get_failed_retryable_withdrawals(max_retries) ==
    SelectSeq(AllIds, LAMBDA i : /\ txs[i].transaction_type = WITHDRAWAL
                                 /\ txs[i].status = FAILED
                                 /\ txs[i].retry_count < max_retries)

\* process_single_withdrawal.delay(tx.id) for each listed row
Delay(ids) == [i \in 1..Len(ids) |-> Message(ids[i], 0, 0)]

\* return {"dispatched": count}
Dispatched(o, n) == [NoRet EXCEPT !.op = o, !.out = "ok", !.dispatched = n]

\* the task has run its queryset's count() and goes on to the loop
Counted(o, n, at) == [task |-> o, count |-> n, at |-> at]

\* Celery Beat runs the task.  First query: pending_txs.count(); with a
\* count of 0 the task returns {"dispatched": 0} and nothing changes
process_pending_withdrawals_count ==
    LET count == Len(get_due_pending_withdrawals(now)) IN
    /\ beat = NoBeat
    /\ count > 0
    /\ beat' = Counted("process_pending_withdrawals", count, now)
    /\ ret' = NoRet
    /\ UNCHANGED <<balance, txs, pc, loc, now, bankCalls, bankOk, queue, faults>>

\* Second query: the loop runs the queryset again and sends one
\* process_single_withdrawal message per row; the task returns the count of
\* the first query
process_pending_withdrawals ==
    LET ids == get_due_pending_withdrawals(beat.at) IN
    /\ beat.task = "process_pending_withdrawals"
    /\ Len(queue) = 0 \/ Len(queue) + Len(ids) <= MaxQueue
    /\ queue' = queue \o Delay(ids)
    /\ ret' = Dispatched("process_pending_withdrawals", beat.count)
    /\ beat' = NoBeat
    /\ UNCHANGED <<balance, txs, pc, loc, now, bankCalls, bankOk, faults>>

\* Celery Beat runs the retry task.  First query: failed_txs.count()
retry_failed_withdrawals_count ==
    LET count == Len(get_failed_retryable_withdrawals(MAX_RETRIES)) IN
    /\ beat = NoBeat
    /\ count > 0
    /\ beat' = Counted("retry_failed_withdrawals", count, now)
    /\ ret' = NoRet
    /\ UNCHANGED <<balance, txs, pc, loc, now, bankCalls, bankOk, queue, faults>>

\* Second query: one message per Failed withdrawal whose retry_count is
\* below MAX_RETRIES; the task returns the count of the first query
retry_failed_withdrawals ==
    LET ids == get_failed_retryable_withdrawals(MAX_RETRIES) IN
    /\ beat.task = "retry_failed_withdrawals"
    /\ Len(queue) + Len(ids) <= MaxQueue
    /\ queue' = queue \o Delay(ids)
    /\ ret' = Dispatched("retry_failed_withdrawals", beat.count)
    /\ beat' = NoBeat
    /\ UNCHANGED <<balance, txs, pc, loc, now, bankCalls, bankOk, faults>>

\* a worker takes the oldest message and calls execute with its id
process_single_withdrawal(p) ==
    /\ queue # <<>>
    /\ execute_enter(p, Head(queue).tx, TRUE, Head(queue).retries)
    /\ queue' = Tail(queue)

\* ------------------------------------------------------------------- Next
Next ==
    \/ CreateWallet
    \/ Tick
    \/ \E p \in Procs, w \in WalletIds, a \in Amounts, k \in Keys :
           deposit_begin(p, w, a, k)
    \/ \E p \in Procs : deposit_commit(p)
    \/ \E p \in Procs, w \in WalletIds, a \in Amounts, sf \in Times, k \in Keys :
           schedule_begin(p, w, a, sf, k)
    \/ \E p \in Procs : schedule_create(p)
    \/ \E p \in Procs, t \in TxIds : execute_call(p, t)
    \/ \E p \in Procs : execute_lock_tx(p)
    \/ \E p \in Procs : execute_lock_wallet(p)
    \/ \E p \in Procs, o \in BankReplies : execute_bank(p, o)
    \/ \E p \in Procs : execute_commit(p)

Spec == Init /\ [][Next]_vars

\* the deployed system: execute is reached only through the task queue;
\* clients send requests that pass the amount check, for wallet ids once issued
NextSys ==
    \/ CreateWallet
    \/ Tick
    \/ \E p \in Procs, w \in 1..MaxWallets, a \in 1..MaxAmount, k \in Keys :
           deposit_begin(p, w, a, k)
    \/ \E p \in Procs : deposit_commit(p)
    \/ \E p \in Procs, w \in 1..MaxWallets, a \in 1..MaxAmount, sf \in Times, k \in Keys :
           schedule_begin(p, w, a, sf, k)
    \/ \E p \in Procs : schedule_create(p)
    \/ process_pending_withdrawals_count
    \/ process_pending_withdrawals
    \/ retry_failed_withdrawals_count
    \/ retry_failed_withdrawals
    \/ \E p \in Procs : process_single_withdrawal(p)
    \/ \E p \in Procs : execute_lock_tx(p)
    \/ \E p \in Procs : execute_lock_wallet(p)
    \/ \E p \in Procs, o \in BankReplies : execute_bank(p, o)
    \/ \E p \in Procs : execute_commit(p)

SpecSys == Init /\ [][NextSys]_vars

\* the two services that take an idempotency key, called with more than one
\* valid amount
ReplayAmounts == 1..(MaxAmount + 1)

NextReplay ==
    \/ CreateWallet
    \/ Tick
    \/ \E p \in Procs, w \in WalletIds, a \in ReplayAmounts, k \in Keys :
           deposit_begin(p, w, a, k)
    \/ \E p \in Procs : deposit_commit(p)
    \/ \E p \in Procs, w \in WalletIds, a \in ReplayAmounts, sf \in Times, k \in Keys :
           schedule_begin(p, w, a, sf, k)
    \/ \E p \in Procs : schedule_create(p)

SpecReplay == Init /\ [][NextReplay]_vars

\* the deployed system under faults: one process is the Celery worker, the
\* others serve HTTP requests; every bank outcome, unexpected errors inside
\* execute and worker crashes occur, MaxFaults of them at most
Workers == {1}

Clients == Procs \ Workers

\* the clients of these runs stop one row short of MaxTx
RoomForRequest == Len(txs) + Cardinality(Inserting) < MaxTx - 1

NextFault ==
    \/ CreateWallet
    \/ Tick
    \/ \E p \in Clients, w \in 1..MaxWallets, a \in 1..MaxAmount :
           RoomForRequest /\ deposit_begin(p, w, a, NoKey)
    \/ \E p \in Clients : deposit_commit(p)
    \/ \E p \in Clients, w \in 1..MaxWallets, a \in 1..MaxAmount,
          sf \in {x \in Times : x > now} :
           RoomForRequest /\ schedule_begin(p, w, a, sf, NoKey)
    \/ \E p \in Clients : schedule_create(p)
    \/ process_pending_withdrawals_count
    \/ process_pending_withdrawals
    \/ \E p \in Workers : process_single_withdrawal(p)
    \/ \E p \in Workers : execute_lock_tx(p)
    \/ \E p \in Workers : execute_lock_wallet(p)
    \/ \E p \in Workers, o \in BankOutcomes : execute_bank(p, o)
    \/ \E p \in Workers : execute_commit(p)
    \/ \E p \in Workers : execute_abort(p)
    \/ \E p \in Workers, redelivered \in BOOLEAN : worker_crash(p, redelivered)

\* Celery Beat keeps running the due task; a worker keeps taking messages
\* and goes on with the call it is in; every bank call returns
FairFault ==
    /\ WF_vars(process_pending_withdrawals_count)
    /\ WF_vars(process_pending_withdrawals)
    /\ \A p \in Workers :
         /\ WF_vars(process_single_withdrawal(p))
         /\ WF_vars(execute_lock_tx(p))
         /\ WF_vars(execute_lock_wallet(p))
         /\ WF_vars(\E o \in BankOutcomes : execute_bank(p, o))
         /\ WF_vars(execute_commit(p))

SpecFault == Init /\ [][NextFault]_vars /\ FairFault

\* the retry path: the bank answers every request without accepting it, the
\* clients deposit and schedule one withdrawal, both periodic tasks and one
\* worker run
BankFailures == {"status_other", "connection_error", "timeout"}

NoWithdrawalYet ==
    /\ \A i \in 1..Len(txs) : txs[i].transaction_type # WITHDRAWAL
    /\ \A q \in Procs : pc[q] # "sch_create"

NextRetry ==
    \/ CreateWallet
    \/ Tick
    \/ \E p \in Clients, w \in 1..MaxWallets, a \in 1..MaxAmount :
           deposit_begin(p, w, a, NoKey)
    \/ \E p \in Clients : deposit_commit(p)
    \/ \E p \in Clients, w \in 1..MaxWallets, a \in 1..MaxAmount,
          sf \in {x \in Times : x > now} :
           NoWithdrawalYet /\ schedule_begin(p, w, a, sf, NoKey)
    \/ \E p \in Clients : schedule_create(p)
    \/ process_pending_withdrawals_count
    \/ process_pending_withdrawals
    \/ retry_failed_withdrawals_count
    \/ retry_failed_withdrawals
    \/ \E p \in Workers : process_single_withdrawal(p)
    \/ \E p \in Workers : execute_lock_tx(p)
    \/ \E p \in Workers : execute_lock_wallet(p)
    \/ \E p \in Workers, o \in BankFailures : execute_bank(p, o)
    \/ \E p \in Workers : execute_commit(p)

\* Celery Beat keeps running both periodic tasks; the worker keeps taking
\* messages and goes on with the call it is in; every bank call returns
FairRetry ==
    /\ WF_vars(process_pending_withdrawals_count)
    /\ WF_vars(process_pending_withdrawals)
    /\ WF_vars(retry_failed_withdrawals_count)
    /\ WF_vars(retry_failed_withdrawals)
    /\ \A p \in Workers :
         /\ WF_vars(process_single_withdrawal(p))
         /\ WF_vars(execute_lock_tx(p))
         /\ WF_vars(execute_lock_wallet(p))
         /\ WF_vars(\E o \in BankFailures : execute_bank(p, o))
         /\ WF_vars(execute_commit(p))

SpecRetry == Init /\ [][NextRetry]_vars /\ FairRetry

\* ================================================================ claims
RECURSIVE SumCompleted(_, _, _)
SumCompleted(w, kind, n) ==
    IF n = 0 THEN 0
    ELSE SumCompleted(w, kind, n - 1)
         + (IF /\ txs[n].wallet = w
               /\ txs[n].transaction_type = kind
               /\ txs[n].status = COMPLETED
            THEN txs[n].amount ELSE 0)

Stepped(p) == pc'[p] # pc[p]

NotFound == Raised("execute", "TransactionDoesNotExist")

\* C1: in every committed state each wallet's balance equals the sum of its
\* Completed Deposits minus the sum of its Completed Withdrawals.
C1_LedgerInvariant ==
    \A w \in Wallets :
        balance[w] = SumCompleted(w, DEPOSIT, Len(txs))
                     - SumCompleted(w, WITHDRAWAL, Len(txs))

\* a wallet with a Completed Deposit, a Completed Withdrawal and a
\* Withdrawal the bank rejected (debited and compensated)
C1_Witness ==
    \E w \in Wallets :
        /\ \E i \in 1..Len(txs) : /\ txs[i].wallet = w
                                  /\ txs[i].transaction_type = WITHDRAWAL
                                  /\ txs[i].status = COMPLETED
        /\ \E i \in 1..Len(txs) : /\ txs[i].wallet = w
                                  /\ txs[i].transaction_type = WITHDRAWAL
                                  /\ txs[i].status = FAILED
                                  /\ txs[i].retry_count > 0
        /\ SumCompleted(w, DEPOSIT, Len(txs)) > 0

\* C2: no committed balance is ever negative, whatever the interleaving of
\* Deposit and Execute calls.
C2_BalanceNonNegative == \A w \in Wallets : balance[w] >= 0

\* two Executes of different withdrawals on one wallet are in flight, their
\* amounts together exceed the balance, one holds the wallet lock at the bank
C2_Witness ==
    \E p, q \in Procs :
        /\ pc[p] = "exec_bank" /\ pc[q] = "exec_wallet"
        /\ loc[p].wallet = loc[q].wallet
        /\ loc[p].tx # loc[q].tx
        /\ loc[p].amount + loc[q].amount > balance[loc[p].wallet]

\* C3: no lost updates.  Every Deposit that returns successfully after
\* taking the wallet lock, whatever other Deposits ran on the wallet between
\* its call and its commit, adds exactly its amount to the committed balance
\* and exactly one Completed Deposit row; so N such calls add N*a and N rows.
C3_NoLostUpdate ==
    [][\A p \in Procs :
         (pc[p] = "dep_lock" /\ Stepped(p) /\ ret'.out = "ok")
         => /\ balance' = [balance EXCEPT ![loc[p].wallet] = @ + loc[p].amount]
            /\ Len(txs') = Len(txs) + 1
            /\ SubSeq(txs', 1, Len(txs)) = txs
            /\ txs'[Len(txs')].wallet = loc[p].wallet
            /\ txs'[Len(txs')].amount = loc[p].amount
            /\ txs'[Len(txs')].transaction_type = DEPOSIT
            /\ txs'[Len(txs')].status = COMPLETED]_vars

\* a Deposit has just committed a new row on a wallet while another Deposit
\* with no key, called before that commit, is still in flight on that wallet
C3_Witness ==
    /\ ret.op = "deposit" /\ ret.out = "ok" /\ ret.id = Len(txs)
    /\ Len(txs) >= 1
    /\ \E p \in Procs :
           /\ pc[p] = "dep_lock"
           /\ loc[p].key = NoKey
           /\ loc[p].wallet = txs[Len(txs)].wallet
           /\ balance[loc[p].wallet] >= 1

\* C4: of concurrent Execute calls on one withdrawal at most one makes a
\* terminal transition: a call still waiting for the row lock when another
\* call commits the withdrawal as Completed or Failed returns NotFound,
\* calls no bank and touches no balance.
C4_AtMostOneTerminal ==
    [][\A p \in Procs :
         (/\ pc[p] = "exec_tx"
          /\ ret.op = "execute" /\ ret.out = "ok" /\ ret.id = loc[p].tx
          /\ Stepped(p))
         => /\ ret' = NotFound
            /\ UNCHANGED <<balance, txs, bankCalls>>]_vars

\* C5: two executors race on a Pending withdrawal, the balance suffices and
\* the bank accepts: the committing call returns it Completed, the bank has
\* been called once for it, the wallet is debited by its amount once, and the
\* call that waited for the lock returns NotFound and changes nothing.
C5_RaceCompletesOnce ==
    [][\A q \in Procs :
         pc[q] = "exec_tx"
         => /\ \A p \in Procs :
                  (/\ p # q
                   /\ loc[p].tx = loc[q].tx
                   /\ pc[p] = "exec_commit" /\ loc[p].bank = "ok"
                   /\ txs[loc[p].tx].status = PENDING
                   /\ Stepped(p))
                  => /\ ret' = Returned("execute", loc[p].tx, COMPLETED)
                     /\ txs'[loc[p].tx].status = COMPLETED
                     /\ bankCalls'[loc[p].tx] = 1
                     /\ balance' = [balance EXCEPT
                                      ![loc[p].wallet] = @ - loc[p].amount]
            /\ (/\ ret = Returned("execute", loc[q].tx, COMPLETED)
                /\ Stepped(q))
               => /\ ret' = NotFound
                  /\ UNCHANGED <<balance, txs, bankCalls>>]_vars

\* the winner has just returned the withdrawal Completed after one bank call
\* while the other executor's call on it is still waiting
C5_Witness ==
    \E q \in Procs :
        /\ pc[q] = "exec_tx"
        /\ ret = Returned("execute", loc[q].tx, COMPLETED)
        /\ bankCalls[loc[q].tx] = 1

\* C6: Execute on a Completed transaction raises NotFound and changes no
\* row, no balance and no bank-call count; no step changes a Completed row.
C6_CompletedIsFinal ==
    [][/\ \A p \in Procs :
            (/\ pc[p] = "exec_tx"
             /\ TxExists(loc[p].tx)
             /\ txs[loc[p].tx].status = COMPLETED
             /\ Stepped(p))
            => /\ ret' = NotFound
               /\ UNCHANGED <<balance, txs, bankCalls>>
       /\ \A t \in 1..Len(txs) :
            txs[t].status = COMPLETED => txs'[t] = txs[t]]_vars

\* Execute on a Completed withdrawal has just raised NotFound
C6_Witness ==
    /\ ret = NotFound
    /\ \E t \in 1..Len(txs) : /\ txs[t].transaction_type = WITHDRAWAL
                              /\ txs[t].status = COMPLETED
                              /\ bankCalls[t] = 1

\* C7: Execute on a Failed withdrawal whose retry_count has reached
\* max_retries returns NotFound and changes neither the row, the balance nor
\* the bank-call count.
C7_ExhaustedIsRefused ==
    [][\A p \in Procs :
         (/\ pc[p] = "exec_tx"
          /\ TxExists(loc[p].tx)
          /\ txs[loc[p].tx].status = FAILED
          /\ txs[loc[p].tx].retry_count >= MAX_RETRIES
          /\ Stepped(p))
         => /\ ret' = NotFound
            /\ UNCHANGED <<balance, txs, bankCalls>>]_vars

\* C8: Deposit(W, a, k) called again after Deposit(W, a, k) has committed
\* returns the id the first call returned and leaves every balance and every
\* row as the first call left them.
C8_DepositIdempotent ==
    [][/\ \A p \in Procs :
            (/\ pc[p] = "dep_lock" /\ loc[p].key # NoKey
             /\ Stepped(p) /\ ret'.out = "ok")
            => /\ txs'[ret'.id].idempotency_key = loc[p].key
               /\ \A i \in 1..Len(txs') :
                      txs'[i].idempotency_key = loc[p].key => i = ret'.id
       /\ \A p \in Procs, w \in WalletIds, a \in 1..MaxAmount, k \in Keys \ {NoKey} :
            (/\ pc[p] = "idle"
             /\ \E i \in 1..Len(txs) : /\ txs[i].idempotency_key = k
                                       /\ txs[i].transaction_type = DEPOSIT
                                       /\ txs[i].wallet = w
                                       /\ txs[i].amount = a
             /\ deposit_begin(p, w, a, k))
            => /\ ret'.op = "deposit" /\ ret'.out = "ok"
               /\ txs[ret'.id].idempotency_key = k
               /\ pc'[p] = "idle"
               /\ UNCHANGED <<balance, txs>>]_vars

\* the second Deposit with the key of a committed Deposit has just returned
\* that row
C8_Witness ==
    /\ ret.op = "deposit" /\ ret.out = "ok"
    /\ \A p \in Procs : pc[p] = "idle"
    /\ Len(txs) = 2
    /\ ret.id = 1
    /\ txs[1].transaction_type = DEPOSIT
    /\ txs[1].idempotency_key # NoKey
    /\ balance[txs[1].wallet] = txs[1].amount

\* C9: Schedule(W, a, t, k) called again, with t still in the future, after
\* Schedule(W, a, t, k) has committed returns the id the first call returned,
\* creates no row and changes no wallet.
C9_ScheduleIdempotent ==
    [][/\ \A p \in Procs :
            (/\ pc[p] = "sch_create" /\ loc[p].key # NoKey
             /\ Stepped(p) /\ ret'.out = "ok")
            => /\ txs'[ret'.id].idempotency_key = loc[p].key
               /\ \A i \in 1..Len(txs') :
                      txs'[i].idempotency_key = loc[p].key => i = ret'.id
       /\ \A p \in Procs, w \in WalletIds, a \in 1..MaxAmount, sf \in Times,
             k \in Keys \ {NoKey} :
            (/\ pc[p] = "idle" /\ sf > now
             /\ \E i \in 1..Len(txs) : /\ txs[i].idempotency_key = k
                                       /\ txs[i].transaction_type = WITHDRAWAL
                                       /\ txs[i].wallet = w
                                       /\ txs[i].amount = a
                                       /\ txs[i].scheduled_for = sf
             /\ schedule_begin(p, w, a, sf, k))
            => /\ ret'.op = "schedule" /\ ret'.out = "ok"
               /\ txs[ret'.id].idempotency_key = k
               /\ pc'[p] = "idle"
               /\ UNCHANGED <<balance, txs>>]_vars

\* the second Schedule with the key of a committed withdrawal has just
\* returned that row; it is still the only row with the key
C9_Witness ==
    /\ ret.op = "schedule" /\ ret.out = "ok"
    /\ \A p \in Procs : pc[p] = "idle"
    /\ Len(txs) = 2
    /\ ret.id = 1
    /\ txs[1].transaction_type = WITHDRAWAL
    /\ txs[1].idempotency_key # NoKey
    /\ txs[2].idempotency_key = NoKey

\* C10: of two Deposits with one key that both passed the key lookup before
\* either inserted, the first to commit credits the wallet once and inserts
\* the only row with the key; the second, finding the key committed, commits
\* nothing: one row, one credit.
C10_SameKeyRace ==
    [][\A p \in Procs :
         (/\ pc[p] = "dep_lock" /\ loc[p].key # NoKey /\ Stepped(p))
         => /\ Cardinality({i \in 1..Len(txs') :
                               txs'[i].idempotency_key = loc[p].key}) <= 1
            /\ IF \E i \in 1..Len(txs) : txs[i].idempotency_key = loc[p].key
               THEN UNCHANGED <<balance, txs>>
               ELSE ret'.out = "ok"
                    => /\ balance' = [balance EXCEPT
                                        ![loc[p].wallet] = @ + loc[p].amount]
                       /\ Len(txs') = Len(txs) + 1]_vars

\* the second of two racing Deposits with one key has just been refused at
\* its insert; the wallet holds the single credit and the single row
C10_Witness ==
    /\ ret = Raised("deposit", "IntegrityError")
    /\ Len(txs) = 1
    /\ txs[1].transaction_type = DEPOSIT
    /\ txs[1].idempotency_key # NoKey
    /\ balance[txs[1].wallet] = txs[1].amount

\* C11: a Deposit or Schedule whose insert meets a committed row with its
\* idempotency key (a concurrent writer committed it after the call's key
\* lookup) returns that row instead of failing.
C11_LoserReturnsWinner ==
    [][\A p \in Procs :
         (/\ pc[p] \in {"dep_lock", "sch_create"}
          /\ loc[p].wallet \in Wallets
          /\ loc[p].key # NoKey
          /\ \E i \in 1..Len(txs) : txs[i].idempotency_key = loc[p].key
          /\ Stepped(p))
         => /\ ret'.out = "ok"
            /\ txs[ret'.id].idempotency_key = loc[p].key
            /\ UNCHANGED <<balance, txs>>]_vars

\* C12: in every committed state no two transactions share a non-null
\* idempotency_key.
C12_KeyUnique ==
    \A i, j \in 1..Len(txs) :
        (i # j /\ txs[i].idempotency_key = txs[j].idempotency_key)
        => txs[i].idempotency_key = NoKey

\* a Schedule that raced a Deposit for one key has just been refused at its
\* insert, beside the Deposit's committed row
C12_Witness ==
    /\ ret = Raised("schedule", "IntegrityError")
    /\ \E i \in 1..Len(txs) : /\ txs[i].idempotency_key # NoKey
                              /\ txs[i].transaction_type = DEPOSIT

\* C13: Schedule with valid arguments on an existing wallet succeeds whatever
\* the balance, inserts one Pending Withdrawal with retry_count 0 and null
\* executed_at, and leaves every balance unchanged.
C13_ScheduleLeavesBalance ==
    [][\A p \in Procs :
         (pc[p] = "sch_create" /\ Stepped(p))
         => /\ balance' = balance
            /\ (/\ loc[p].wallet \in Wallets
                /\ ~(/\ loc[p].key # NoKey
                     /\ \E i \in 1..Len(txs) : txs[i].idempotency_key = loc[p].key))
               => /\ ret' = Returned("schedule", Len(txs) + 1, PENDING)
                  /\ txs' = Append(txs,
                        [wallet |-> loc[p].wallet, amount |-> loc[p].amount,
                         transaction_type |-> WITHDRAWAL, status |-> PENDING,
                         scheduled_for |-> loc[p].sched, executed_at |-> Unset,
                         third_party_response |-> "none", retry_count |-> 0,
                         idempotency_key |-> loc[p].key])]_vars

\* a withdrawal larger than the wallet's balance has just been scheduled
C13_Witness ==
    /\ ret = Returned("schedule", Len(txs), PENDING)
    /\ Len(txs) >= 1
    /\ txs[Len(txs)].idempotency_key = NoKey
    /\ txs[Len(txs)].status = PENDING
    /\ balance[txs[Len(txs)].wallet] < txs[Len(txs)].amount

\* C14: an Execute with sufficient balance that the bank accepts calls the
\* bank once, with the wallet and the amount of the withdrawal, and commits
\* the withdrawal Completed with executed_at set, the bank's payload stored,
\* retry_count unchanged and the balance lower by exactly the amount.
C14_ExecuteSuccess ==
    [][\A p \in Procs :
         /\ (pc[p] \in {"exec_tx", "exec_wallet"} /\ Stepped(p))
            => bankCalls' = bankCalls
         /\ (pc[p] = "exec_bank" /\ Stepped(p))
            => /\ bankCalls' = [bankCalls EXCEPT ![loc[p].tx] = @ + 1]
               /\ loc'[p].req = <<txs[loc[p].tx].wallet, txs[loc[p].tx].amount>>
         /\ (pc[p] = "exec_commit" /\ loc[p].bank = "ok" /\ Stepped(p))
            => /\ bankCalls' = bankCalls
               /\ ret' = Returned("execute", loc[p].tx, COMPLETED)
               /\ txs' = [txs EXCEPT ![loc[p].tx] =
                            [@ EXCEPT !.status = COMPLETED,
                                      !.executed_at = Stamp,
                                      !.third_party_response = "bank_ok"]]
               /\ balance' = [balance EXCEPT
                                ![txs[loc[p].tx].wallet] = @ - txs[loc[p].tx].amount]]_vars

\* a never-failed withdrawal has just been committed Completed after its
\* single bank call
C14_Witness ==
    /\ ret.op = "execute" /\ ret.out = "ok" /\ ret.status = COMPLETED
    /\ txs[ret.id].executed_at = Stamp
    /\ txs[ret.id].third_party_response = "bank_ok"
    /\ txs[ret.id].retry_count = 0
    /\ bankCalls[ret.id] = 1
    /\ \A p \in Procs : pc[p] = "idle"

\* C15: an Execute with sufficient balance that the bank does not accept
\* commits the withdrawal Failed with retry_count one higher and the balance
\* as it was when Execute locked the wallet; no committed state shows the
\* debit without its compensation.
C15_Compensation ==
    [][\A p \in Procs :
         /\ (pc[p] = "exec_wallet" /\ Stepped(p)) => balance' = balance
         /\ (pc[p] \in {"exec_bank", "exec_commit"} /\ loc[p].bank # "ok")
            => balance'[loc[p].wallet] = balance[loc[p].wallet]
         /\ (pc[p] = "exec_commit" /\ loc[p].bank = "rejected" /\ Stepped(p))
            => /\ ret' = Returned("execute", loc[p].tx, FAILED)
               /\ balance' = balance
               /\ txs' = [txs EXCEPT ![loc[p].tx] =
                            [@ EXCEPT !.status = FAILED,
                                      !.executed_at = Stamp,
                                      !.retry_count = @ + 1,
                                      !.third_party_response = "bank_rejected"]]]_vars

\* a withdrawal the wallet could pay has just been committed Failed after a
\* bank rejection, the balance still covering it
C15_Witness ==
    /\ ret.op = "execute" /\ ret.out = "ok" /\ ret.status = FAILED
    /\ txs[ret.id].third_party_response = "bank_rejected"
    /\ txs[ret.id].retry_count = 1
    /\ balance[txs[ret.id].wallet] >= txs[ret.id].amount

\* C16: an Execute that finds the balance below the amount commits the
\* withdrawal Failed with the response "Insufficient balance", calls no bank
\* and leaves the balance and retry_count unchanged.
C16_InsufficientBalance ==
    [][\A p \in Procs :
         (/\ pc[p] = "exec_wallet"
          /\ balance[loc[p].wallet] < txs[loc[p].tx].amount
          /\ Stepped(p))
         => /\ ret' = Returned("execute", loc[p].tx, FAILED)
            /\ balance' = balance
            /\ bankCalls' = bankCalls
            /\ txs' = [txs EXCEPT ![loc[p].tx] =
                         [@ EXCEPT !.status = FAILED,
                                   !.executed_at = Stamp,
                                   !.third_party_response = "insufficient_balance"]]]_vars

\* a Pending withdrawal has just been failed for insufficient balance without
\* any bank call
C16_Witness ==
    /\ ret.op = "execute" /\ ret.out = "ok" /\ ret.status = FAILED
    /\ txs[ret.id].third_party_response = "insufficient_balance"
    /\ txs[ret.id].retry_count = 0
    /\ bankCalls[ret.id] = 0
    /\ balance[txs[ret.id].wallet] < txs[ret.id].amount

\* C18: every status change follows Pending->Processing, Failed->Processing,
\* Processing->Completed, Processing->Failed: Processing is entered only from
\* Pending or Failed, a committed row changes status only through a call that
\* holds it as Processing, no row leaves Completed, no row returns to Pending,
\* and a Deposit never changes status.
C18_StateMachine ==
    [][/\ \A p \in Procs :
            (pc[p] = "exec_tx" /\ pc'[p] = "exec_wallet")
            => /\ txs[loc[p].tx].status \in {PENDING, FAILED}
               /\ loc'[p].status = PROCESSING
       /\ \A t \in 1..Len(txs) :
            /\ txs'[t].status # txs[t].status
               => /\ txs[t].status \in {PENDING, FAILED}
                  /\ txs'[t].status \in {COMPLETED, FAILED}
                  /\ \E p \in Procs : /\ pc[p] \in {"exec_wallet", "exec_commit"}
                                      /\ loc[p].tx = t
                                      /\ loc[p].status = PROCESSING
                                      /\ Stepped(p)
            /\ txs[t].status = COMPLETED => txs'[t].status = COMPLETED
            /\ txs'[t].status = PENDING => txs[t].status = PENDING
            /\ txs'[t].status # PROCESSING
            /\ txs[t].transaction_type = DEPOSIT
               => txs'[t].status = txs[t].status]_vars

\* a withdrawal that had failed at the bank has been taken up again and has
\* just been committed Completed, beside a Deposit
C18_Witness ==
    /\ ret.op = "execute" /\ ret.out = "ok" /\ ret.status = COMPLETED
    /\ txs[ret.id].retry_count >= 1
    /\ \E d \in 1..Len(txs) : txs[d].transaction_type = DEPOSIT

\* how many messages for transaction t wait in a queue
Queued(q, t) == Len(SelectSeq(q, LAMBDA x : x.tx = t))

\* C17: in the full system a withdrawal that execute has failed for
\* insufficient balance is never enqueued again and never executed again.
C17_InsufficientNotRetried ==
    [][\A t \in 1..Len(txs) :
         (/\ txs[t].status = FAILED
          /\ txs[t].third_party_response = "insufficient_balance")
         => /\ Queued(queue', t) <= Queued(queue, t)
            /\ \A p \in Procs :
                 ~(/\ pc[p] = "exec_tx" /\ loc[p].tx = t
                   /\ pc'[p] = "exec_wallet")]_vars

\* C19: in the full system, the same id queued more than once included, no
\* withdrawal's retry_count exceeds max_retries, and the bank is not called
\* for a withdrawal whose retry_count has reached max_retries.
C19_RetryBound ==
    /\ \A t \in 1..Len(txs) : txs[t].retry_count <= MAX_RETRIES
    /\ \A p \in Procs :
         pc[p] = "exec_commit" => txs[loc[p].tx].retry_count < MAX_RETRIES

C24_DepositFailureFrame ==
    [][/\ \A p \in Procs :
            (pc[p] = "idle" /\ (pc'[p] = "dep_lock" \/ ret'.op = "deposit"))
            => \A w \in WalletIds, a \in Amounts, k \in Keys :
                 /\ (a <= 0 /\ deposit_begin(p, w, a, k))
                    => /\ ret' = Raised("deposit", "ValueError")
                       /\ pc'[p] = "idle"
                 /\ (/\ a > 0 /\ w \notin Wallets
                     /\ ~(k # NoKey /\ \E i \in 1..Len(txs) : txs[i].idempotency_key = k)
                     /\ deposit_begin(p, w, a, k))
                    => /\ pc'[p] = "dep_lock"
                       /\ UNCHANGED <<balance, txs>>
       /\ \A p \in Procs :
            (pc[p] = "dep_lock" /\ loc[p].wallet \notin Wallets /\ Stepped(p))
            => ret' = Raised("deposit", "WalletDoesNotExist")
       /\ (ret'.op = "deposit" /\ ret'.out # "ok") => UNCHANGED <<balance, txs>>]_vars

\* a Deposit on an unknown wallet has just raised beside a credited wallet
C24_Witness ==
    /\ ret = Raised("deposit", "WalletDoesNotExist")
    /\ Len(txs) >= 1
    /\ \E w \in Wallets : balance[w] > 0

\* C25: a withdrawal created by Schedule starts Pending with scheduled_for
\* strictly later than its created_at (the clock at the insert), and a
\* Schedule that fails inserts no transaction.
C25_ScheduledAfterCreated ==
    [][/\ \A p \in Procs :
            (pc[p] = "sch_create" /\ Stepped(p) /\ ret'.out = "ok")
            => /\ txs'[Len(txs')].status = PENDING
               /\ txs'[Len(txs')].scheduled_for > now
       /\ (ret'.op = "schedule" /\ ret'.out # "ok") => txs' = txs]_vars

\* C26: a Deposit or Schedule whose idempotency_key matches a committed row
\* returns that row and changes nothing, whatever wallet and (valid) amount the
\* request names, an unknown wallet included.
C26_ReplayIgnoresRequest ==
    [][\A p \in Procs, w \in WalletIds, a \in ReplayAmounts, k \in Keys \ {NoKey} :
         (/\ pc[p] = "idle"
          /\ \E i \in 1..Len(txs) : txs[i].idempotency_key = k
          /\ \/ deposit_begin(p, w, a, k)
             \/ \E sf \in Times : sf > now /\ schedule_begin(p, w, a, sf, k))
         => /\ ret'.out = "ok"
            /\ txs[ret'.id].idempotency_key = k
            /\ ret'.status = txs[ret'.id].status
            /\ ret'.conflict = (txs[ret'.id].amount # a \/ txs[ret'.id].wallet # w)
            /\ pc'[p] = "idle"
            /\ UNCHANGED <<balance, txs, bankCalls, queue>>]_vars

\* a Deposit whose request differs from the row stored under its key has just
\* returned that row; the wallet holds the one credit of the stored row
C26_Witness ==
    /\ ret.op = "deposit" /\ ret.out = "ok" /\ ret.conflict
    /\ txs[ret.id].transaction_type = DEPOSIT
    /\ Len(txs) = 1
    /\ balance[txs[ret.id].wallet] = txs[ret.id].amount

\* C28: every Deposit call that returns a transaction returns a Deposit with
\* status Completed and executed_at set, also when its key was first used by
\* a Schedule call.
C28_DepositReturnsDeposit ==
    (ret.op = "deposit" /\ ret.out = "ok")
    => /\ txs[ret.id].transaction_type = DEPOSIT
       /\ txs[ret.id].status = COMPLETED
       /\ txs[ret.id].executed_at = Stamp
       /\ ret.status = COMPLETED


\* C29: with the due task and the worker running fairly and every bank call
\* returning, a Pending withdrawal whose scheduled_for has passed is
\* eventually Completed or Failed, also after messages were lost to worker
\* crashes or calls were rolled back (MaxFaults of them at most).
C29_DueEventuallySettled ==
    \A t \in TxIds :
        (/\ TxExists(t)
         /\ txs[t].transaction_type = WITHDRAWAL
         /\ txs[t].status = PENDING
         /\ txs[t].scheduled_for <= now)
        ~> (TxExists(t) /\ txs[t].status \in {COMPLETED, FAILED})

\* a withdrawal whose message was lost or rolled back has since been
\* completed and nothing is left in the queue
C29_Witness ==
    /\ faults >= 1
    /\ ret = TaskResult(ret.id, COMPLETED)
    /\ ret.id \in 1..Len(txs)
    /\ txs[ret.id].scheduled_for <= now
    /\ queue = <<>>

\* C21: a run of process_pending_withdrawals or retry_failed_withdrawals
\* changes no wallet and no transaction field; it only appends messages for
\* existing transaction ids to the queue, and the number it returns is the
\* number of messages it sent.
C21_DispatchFrame ==
    [][/\ (ret'.op \in {"process_pending_withdrawals", "retry_failed_withdrawals"}
           /\ ret' # ret)
          => /\ UNCHANGED <<balance, txs, pc, loc, now, bankCalls>>
             /\ Len(queue') = Len(queue) + ret'.dispatched
             /\ SubSeq(queue', 1, Len(queue)) = queue
             /\ \A i \in (Len(queue) + 1)..Len(queue') : TxExists(queue'[i].tx)
       /\ Len(queue') > Len(queue)
          => ret'.op \in {"process_pending_withdrawals", "retry_failed_withdrawals"}]_vars

\* C22: when execute raises Transaction.DoesNotExist for a message, the
\* worker drops it: nothing is sent to the queue again, no row changes and
\* the task returns status NOT_FOUND.
C22_NotFoundDropped ==
    [][\A p \in Procs :
         (/\ pc[p] = "exec_tx" /\ loc[p].task
          /\ ~(TxExists(loc[p].tx) /\ txs[loc[p].tx].status \in {PENDING, FAILED})
          /\ Stepped(p))
         => /\ ret' = TaskResult(loc[p].tx, "NOT_FOUND")
            /\ pc'[p] = "idle"
            /\ UNCHANGED <<balance, txs, bankCalls, queue>>]_vars

\* a worker has just reported NOT_FOUND for a message whose withdrawal
\* another message had already completed
C22_Witness ==
    /\ ret = TaskResult(ret.id, "NOT_FOUND")
    /\ ret.id \in 1..Len(txs)
    /\ txs[ret.id].status = COMPLETED

\* C23: when execute leaves with an unexpected error the worker sends the
\* message again with countdown 10 * 2^retries (10, 20, 40) and gives up once
\* the message has been retried 3 times; a result returned by execute is
\* never sent again, and a worker retry changes no row (retry_count included).
C23_WorkerRetry ==
    [][/\ \A p \in Procs :
            /\ (/\ pc[p] \in {"exec_wallet", "exec_bank", "exec_commit"}
                /\ loc[p].task
                /\ pc'[p] = "idle"
                /\ ret'.out \notin {"ok", "none"})
               => /\ txs' = txs
                  /\ IF loc[p].retries < 3
                     THEN /\ ret' = TaskRaised(loc[p].tx, "Retry")
                          /\ queue' = Append(queue,
                                [tx |-> loc[p].tx, retries |-> loc[p].retries + 1,
                                 countdown |-> 10 * (2 ^ loc[p].retries)])
                     ELSE /\ ret' = TaskRaised(loc[p].tx, "Exception")
                          /\ queue' = queue
            /\ (pc[p] # "idle" /\ loc[p].task /\ Stepped(p) /\ ret'.out = "ok")
               => queue' = queue
       /\ \A i \in 1..Len(queue) :
            /\ queue[i].retries <= 3
            /\ queue[i].countdown \in {0, 10, 20, 40}]_vars

\* the worker has just given up on a message after its third retry
C23_Witness ==
    /\ ret = TaskRaised(ret.id, "Exception")
    /\ ret.id \in 1..Len(txs)
    /\ txs[ret.id].status = PENDING
    /\ txs[ret.id].retry_count = 0
    /\ faults = 4

\* C27: the bank client never raises: every request gives execute a result,
\* success exactly when the bank's body carries status 200, and a payload
\* with success false for every other outcome.
C27_BankClientTotal ==
    [][\A p \in Procs :
         (pc[p] = "exec_bank" /\ Stepped(p) /\ bankCalls' # bankCalls)
         => /\ pc'[p] = "exec_commit"
            /\ loc'[p].bank \in {"ok", "rejected"}
            /\ loc'[p].resp # "none"
            /\ loc'[p].bank = "ok" <=> loc'[p].resp = "bank_ok"]_vars

\* C30: when execute leaves with an unexpected error after it locked the
\* row (after marking it PROCESSING, after the debit or after the bank call),
\* every row and every balance is as before the call and the withdrawal is
\* still eligible for execute.
C30_AbortRollsBack ==
    [][\A p \in Procs :
         (/\ pc[p] \in {"exec_wallet", "exec_bank", "exec_commit"}
          /\ pc'[p] = "idle"
          /\ ret'.out \in {"Retry", "Exception"})
         => /\ balance' = balance
            /\ txs' = txs
            /\ txs'[loc[p].tx].status \in {PENDING, FAILED}
            /\ ~TxLocked(loc[p].tx)']_vars

\* an execute that had debited the wallet and called the bank has just been
\* rolled back: the withdrawal is Pending and the balance still covers it
C30_Witness ==
    /\ ret = TaskRaised(ret.id, "Retry")
    /\ ret.id \in 1..Len(txs)
    /\ bankCalls[ret.id] >= 1
    /\ txs[ret.id].status = PENDING
    /\ txs[ret.id].executed_at = Unset
    /\ balance[txs[ret.id].wallet] >= txs[ret.id].amount

\* C31: Execute holds the wallet row lock from its balance check to its
\* commit, across the bank call: meanwhile no other Execute is past the
\* balance check on that wallet, no Deposit or Execute waiting for the wallet
\* moves, and the committed balance changes only by the holder's own commit.
C31_WalletLockHeld ==
    [][\A p \in Procs :
         pc[p] \in {"exec_bank", "exec_commit"}
         => /\ \A q \in Procs \ {p} :
                 loc[q].wallet = loc[p].wallet
                 => /\ pc[q] \notin {"exec_bank", "exec_commit"}
                    /\ pc[q] \in {"dep_lock", "exec_wallet"} => pc'[q] = pc[q]
            /\ balance'[loc[p].wallet] # balance[loc[p].wallet]
               => /\ pc[p] = "exec_commit" /\ loc[p].bank = "ok"
                  /\ Stepped(p)
            /\ \A w \in Wallets \ {loc[p].wallet} :
                 Stepped(p) => balance'[w] = balance[w]]_vars

\* an Execute the bank rejected holds the debit uncommitted while a Deposit
\* on the same wallet waits for the wallet row
C31_Witness ==
    \E p, q \in Procs :
        /\ pc[p] = "exec_commit" /\ loc[p].bank = "rejected"
        /\ pc[q] = "dep_lock"
        /\ loc[q].wallet = loc[p].wallet
        /\ balance[loc[p].wallet] >= loc[p].amount

\* the committed rows after Deposit(w, a, k) has run from start to end with
\* no other call in progress
SerialDeposit(w, a, k) ==
    IF InvalidAmount(a) \/ ReplayHit(k, w, a) \/ w \notin Wallets
    THEN <<balance, txs>>
    ELSE <<[balance EXCEPT ![w] = @ + a], Append(txs, NewDeposit(w, a, k))>>

\* the committed rows after Execute(t) has run from start to end with no
\* other call in progress, the bank answering ok or not with payload resp
SerialExecute(t, ok, resp) ==
    IF ~(TxExists(t) /\ txs[t].status \in {PENDING, FAILED})
    THEN <<balance, txs>>
    ELSE IF balance[txs[t].wallet] < txs[t].amount
    THEN <<balance,
           [txs EXCEPT ![t] = [@ EXCEPT !.status = FAILED, !.executed_at = Stamp,
                                 !.third_party_response = "insufficient_balance"]]>>
    ELSE IF ok
    THEN <<[balance EXCEPT ![txs[t].wallet] = @ - txs[t].amount],
           [txs EXCEPT ![t] = [@ EXCEPT !.status = COMPLETED, !.executed_at = Stamp,
                                 !.third_party_response = resp]]>>
    ELSE <<balance,
           [txs EXCEPT ![t] = [@ EXCEPT !.status = FAILED, !.executed_at = Stamp,
                                 !.retry_count = @ + 1,
                                 !.third_party_response = resp]]>>

\* C32: per-wallet serializability.  At most one call holds a wallet's row
\* lock, so calls commit in the order in which they took it; while it is held
\* no other call changes the wallet's balance or the status of a row of the
\* wallet; and each Deposit or Execute that took the lock leaves the
\* committed balances and rows exactly as the same call run alone, at its
\* place in that order, leaves them.
C32_SerialInLockOrder ==
    [][\A p \in Procs :
         /\ pc[p] \in {"exec_bank", "exec_commit"}
            => /\ \A q \in Procs \ {p} :
                    ~(/\ pc[q] \in {"exec_bank", "exec_commit"}
                      /\ loc[q].wallet = loc[p].wallet)
               /\ ~Stepped(p)
                  => /\ balance'[loc[p].wallet] = balance[loc[p].wallet]
                     /\ \A t \in 1..Len(txs) :
                          txs[t].wallet = loc[p].wallet
                          => txs'[t].status = txs[t].status
         /\ (pc[p] = "dep_lock" /\ Stepped(p))
            => <<balance', txs'>>
               = SerialDeposit(loc[p].wallet, loc[p].amount, loc[p].key)
         /\ (pc[p] = "exec_wallet" /\ pc'[p] = "idle")
            => <<balance', txs'>> = SerialExecute(loc[p].tx, FALSE, "none")
         /\ (pc[p] = "exec_wallet" /\ pc'[p] = "exec_bank")
            => /\ UNCHANGED <<balance, txs>>
               /\ balance[loc[p].wallet] >= loc[p].amount
         /\ (pc[p] = "exec_bank" /\ Stepped(p)) => UNCHANGED <<balance, txs>>
         /\ (pc[p] = "exec_commit" /\ Stepped(p))
            => <<balance', txs'>>
               = SerialExecute(loc[p].tx, loc[p].bank = "ok", loc[p].resp)]_vars

\* of two Executes on one wallet whose balance covers only one, the first to
\* take the wallet lock has just committed Completed; the second, still
\* waiting for the lock, will find the balance short
C32_Witness ==
    /\ ret.op = "execute" /\ ret.out = "ok" /\ ret.status = COMPLETED
    /\ \E q \in Procs :
           /\ pc[q] = "exec_wallet"
           /\ loc[q].wallet = txs[ret.id].wallet
           /\ loc[q].tx # ret.id
           /\ balance[loc[q].wallet] < loc[q].amount

\* C33: a run of retry_failed_withdrawals sends one message for each
\* Withdrawal that is Failed with retry_count < max_retries and for nothing
\* else: not for a Failed withdrawal with retry_count >= max_retries, not for
\* a Pending or Completed withdrawal, not for a Deposit.
C33_RetryQueryExact ==
    [][(ret'.op = "retry_failed_withdrawals" /\ queue' # queue)
       => /\ SubSeq(queue', 1, Len(queue)) = queue
          /\ \A i \in (Len(queue) + 1)..Len(queue') : queue'[i].retries = 0
          /\ \A t \in TxIds :
               Queued(queue', t) - Queued(queue, t)
               = IF /\ TxExists(t)
                    /\ txs[t].transaction_type = WITHDRAWAL
                    /\ txs[t].status = FAILED
                    /\ txs[t].retry_count < MAX_RETRIES
                 THEN 1 ELSE 0]_vars

\* the retry task has just sent the one retry-eligible withdrawal and left
\* out a Failed withdrawal whose retry_count has reached max_retries and a
\* Deposit
C33_Witness ==
    /\ ret = Dispatched("retry_failed_withdrawals", 1)
    /\ Len(queue) = 1
    /\ txs[queue[1].tx].status = FAILED
    /\ txs[queue[1].tx].retry_count < MAX_RETRIES
    /\ \E t \in 1..Len(txs) : /\ txs[t].status = FAILED
                              /\ txs[t].retry_count >= MAX_RETRIES
    /\ \E d \in 1..Len(txs) : txs[d].transaction_type = DEPOSIT

\* C34: with both periodic tasks and the worker running fairly and the bank
\* accepting no request, a due or Failed withdrawal below max_retries on a
\* wallet whose balance covers it eventually is Failed with retry_count =
\* max_retries; and a run of retry_failed_withdrawals never sends a message
\* for a Failed withdrawal whose retry_count has reached max_retries.
C34_RetryTerminates ==
    /\ \A t \in TxIds :
         (/\ TxExists(t)
          /\ txs[t].transaction_type = WITHDRAWAL
          /\ txs[t].retry_count < MAX_RETRIES
          /\ \/ txs[t].status = FAILED
             \/ txs[t].status = PENDING /\ txs[t].scheduled_for <= now
          /\ balance[txs[t].wallet] >= txs[t].amount)
         ~> (/\ TxExists(t)
             /\ txs[t].status = FAILED
             /\ txs[t].retry_count = MAX_RETRIES)
    /\ [][\A t \in 1..Len(txs) :
            (txs[t].status = FAILED /\ txs[t].retry_count >= MAX_RETRIES)
            => ~(/\ ret'.op = "retry_failed_withdrawals"
                 /\ Queued(queue', t) > Queued(queue, t))]_vars

\* the worker has just committed the third bank failure of a withdrawal; the
\* retry task has counted nothing since and the queue is empty
C34_Witness ==
    /\ ret = TaskResult(ret.id, FAILED)
    /\ ret.id \in 1..Len(txs)
    /\ txs[ret.id].retry_count = MAX_RETRIES
    /\ bankCalls[ret.id] = MAX_RETRIES
    /\ balance[txs[ret.id].wallet] >= txs[ret.id].amount
    /\ queue = <<>>
    /\ beat = NoBeat

\* C35: in every committed state a Completed or Failed transaction has
\* executed_at set and, if it is a Withdrawal, third_party_response set; a
\* Pending withdrawal has executed_at null and retry_count 0.
C35_SettledRowsStamped ==
    \A t \in 1..Len(txs) :
        /\ txs[t].status \in {COMPLETED, FAILED}
           => /\ txs[t].executed_at = Stamp
              /\ txs[t].transaction_type = WITHDRAWAL
                 => txs[t].third_party_response # "none"
        /\ txs[t].status = PENDING
           => /\ txs[t].transaction_type = WITHDRAWAL
              /\ txs[t].executed_at = Unset
              /\ txs[t].retry_count = 0

\* after a rolled-back call, a withdrawal the bank did not answer in time is
\* Failed with the timeout payload, beside a Completed Deposit
C35_Witness ==
    /\ faults >= 1
    /\ \E t \in 1..Len(txs) : /\ txs[t].transaction_type = WITHDRAWAL
                              /\ txs[t].status = FAILED
                              /\ txs[t].third_party_response = "timeout"
                              /\ txs[t].executed_at = Stamp
                              /\ bankCalls[t] >= 2
    /\ \E d \in 1..Len(txs) : /\ txs[d].transaction_type = DEPOSIT
                              /\ txs[d].status = COMPLETED

\* C36: no committed row is ever Processing: after any sequence of calls,
\* rolled-back Executes and worker crashes included, every committed
\* transaction is Pending, Completed or Failed.
C36_ProcessingNeverCommitted ==
    \A t \in 1..Len(txs) : txs[t].status \in {PENDING, COMPLETED, FAILED}

\* the worker died in an Execute that had marked the row Processing and
\* called the bank, and its message was lost: the row is committed Pending
C36_Witness ==
    /\ faults >= 1
    /\ ret = NoRet
    /\ queue = <<>>
    /\ \A p \in Procs : pc[p] = "idle"
    /\ \E t \in 1..Len(txs) : /\ txs[t].status = PENDING
                              /\ bankCalls[t] >= 1

\* C37: where no Execute is rolled back after the bank's reply, the bank
\* answers ok to at most one request made for a withdrawal, over all its
\* executions and retries; a Completed withdrawal has had exactly one ok, and
\* a withdrawal that has had one is Completed or is being committed so.
C37_NoDoublePayout ==
    \A t \in TxIds :
        /\ bankOk[t] <= 1
        /\ bankOk[t] <= bankCalls[t]
        /\ (TxExists(t) /\ txs[t].transaction_type = WITHDRAWAL
                        /\ txs[t].status = COMPLETED)
           => bankOk[t] = 1
        /\ bankOk[t] = 1
           => /\ TxExists(t)
              /\ \/ txs[t].status = COMPLETED
                 \/ \E p \in Procs : /\ pc[p] = "exec_commit"
                                     /\ loc[p].tx = t
                                     /\ loc[p].bank = "ok"

\* a withdrawal the bank first refused was retried and accepted; a second
\* message for it has just been dropped as NOT_FOUND
C37_Witness ==
    /\ ret = TaskResult(ret.id, "NOT_FOUND")
    /\ ret.id \in 1..Len(txs)
    /\ txs[ret.id].status = COMPLETED
    /\ txs[ret.id].retry_count >= 1
    /\ bankCalls[ret.id] >= 2
    /\ bankOk[ret.id] = 1

\* C38: Schedule checks its arguments before it looks the key up: a Schedule
\* whose key a committed row holds, called with scheduled_for <= now, raises
\* ValueError instead of returning that row, and changes no row.
C38_ChecksBeforeLookup ==
    [][\A p \in Procs :
         (pc[p] = "idle" /\ ret'.op = "schedule")
         => \A w \in WalletIds, a \in ReplayAmounts, sf \in Times, k \in Keys \ {NoKey} :
              (/\ \E i \in 1..Len(txs) : txs[i].idempotency_key = k
               /\ sf <= now
               /\ schedule_begin(p, w, a, sf, k))
              => /\ ret' = Raised("schedule", "ValueError")
                 /\ pc'[p] = "idle"
                 /\ UNCHANGED <<balance, txs>>]_vars

\* a Schedule has just been refused for its time while the only row is a
\* withdrawal stored under a key whose scheduled_for has been reached
C38_Witness ==
    /\ ret = Raised("schedule", "ValueError")
    /\ Len(txs) = 1
    /\ txs[1].idempotency_key # NoKey
    /\ txs[1].transaction_type = WITHDRAWAL
    /\ txs[1].scheduled_for <= now
    /\ \A p \in Procs : pc[p] = "idle"

====
